---- MODULE Spec2Model ----
(***************************************************************************)
(* SupplyWise (src/app.py): the two analysis passes of the Streamlit page. *)
(* analyze_data turns a DataFrame into an ordered list of insights and     *)
(* create_visualizations turns it into an ordered list of charts.  Both    *)
(* pick columns by case-insensitive substring tests on the column names    *)
(* and both run inside a single try/except.                                *)
(*                                                                         *)
(* A DataFrame is modelled by what the two passes read: the ordered        *)
(* columns (name, dtype), the number of rows, the number of distinct       *)
(* non-null labels a column holds (ngroups) and whether one more row is    *)
(* null (hasnull).  An insight is modelled by its 'type' field and a chart *)
(* by a tag naming the figure that the code appends.                       *)
(***************************************************************************)
EXTENDS Integers, Sequences, FiniteSets, TLC

\* ---- bounds of the explored inputs ----
MaxCols == 3   \* an uploaded file has 1..MaxCols columns
MaxFew == 2    \* label counts 0..MaxFew are explored ...
MaxOver == 1   \* ... and TopN..TopN+MaxOver

\* the cut-off of chart 4: len(unique()) > 10 and nlargest(10)
TopN == 10

\* ---- strings: Python str as a sequence of characters ----
Chars(s) ==
    CASE s = "Revenue" -> <<"R", "e", "v", "e", "n", "u", "e">>
      [] s = "SALES" -> <<"S", "A", "L", "E", "S">>
      [] s = "Product" -> <<"P", "r", "o", "d", "u", "c", "t">>
      [] s = "Category" -> <<"C", "a", "t", "e", "g", "o", "r", "y">>
      [] s = "Stock_Quantity" -> <<"S", "t", "o", "c", "k", "_", "Q", "u", "a", "n", "t", "i", "t", "y">>
      [] s = "Supplier_Lead_Time" -> <<"S", "u", "p", "p", "l", "i", "e", "r", "_", "L", "e", "a", "d", "_", "T", "i", "m", "e">>
      [] s = "Cost_Per_Unit" -> <<"C", "o", "s", "t", "_", "P", "e", "r", "_", "U", "n", "i", "t">>
      [] s = "Warehouse" -> <<"W", "a", "r", "e", "h", "o", "u", "s", "e">>
      [] s = "Date" -> <<"D", "a", "t", "e">>
      [] s = "Demand" -> <<"D", "e", "m", "a", "n", "d">>
      [] s = "Order_Quantity" -> <<"O", "r", "d", "e", "r", "_", "Q", "u", "a", "n", "t", "i", "t", "y">>
      [] s = "Supply Chain Manager" -> <<"S", "u", "p", "p", "l", "y", " ", "C", "h", "a", "i", "n", " ", "M", "a", "n", "a", "g", "e", "r">>
      [] s = "Demand Planner" -> <<"D", "e", "m", "a", "n", "d", " ", "P", "l", "a", "n", "n", "e", "r">>
      [] s = "revenue" -> <<"r", "e", "v", "e", "n", "u", "e">>
      [] s = "sales" -> <<"s", "a", "l", "e", "s">>
      [] s = "product" -> <<"p", "r", "o", "d", "u", "c", "t">>
      [] s = "category" -> <<"c", "a", "t", "e", "g", "o", "r", "y">>
      [] s = "type" -> <<"t", "y", "p", "e">>
      [] s = "sku" -> <<"s", "k", "u">>
      [] s = "stock" -> <<"s", "t", "o", "c", "k">>
      [] s = "inventory" -> <<"i", "n", "v", "e", "n", "t", "o", "r", "y">>
      [] s = "lead" -> <<"l", "e", "a", "d">>
      [] s = "time" -> <<"t", "i", "m", "e">>
      [] s = "cost" -> <<"c", "o", "s", "t">>
      [] s = "price" -> <<"p", "r", "i", "c", "e">>
      [] s = "demand" -> <<"d", "e", "m", "a", "n", "d">>

\* str.lower() on one character
LowerChar(c) ==
    CASE c = "A" -> "a"
      [] c = "B" -> "b"
      [] c = "C" -> "c"
      [] c = "D" -> "d"
      [] c = "E" -> "e"
      [] c = "F" -> "f"
      [] c = "G" -> "g"
      [] c = "H" -> "h"
      [] c = "I" -> "i"
      [] c = "J" -> "j"
      [] c = "K" -> "k"
      [] c = "L" -> "l"
      [] c = "M" -> "m"
      [] c = "N" -> "n"
      [] c = "O" -> "o"
      [] c = "P" -> "p"
      [] c = "Q" -> "q"
      [] c = "R" -> "r"
      [] c = "S" -> "s"
      [] c = "T" -> "t"
      [] c = "U" -> "u"
      [] c = "V" -> "v"
      [] c = "W" -> "w"
      [] c = "X" -> "x"
      [] c = "Y" -> "y"
      [] c = "Z" -> "z"
      [] OTHER -> c

\* str.lower()
Lower(s) == [i \in 1..Len(s) |-> LowerChar(s[i])]

\* the Python test  sub in s  on character sequences
Contains(sub, s) ==
    \E i \in 0..(Len(s) - Len(sub)) : SubSeq(s, i + 1, i + Len(sub)) = sub

Range(s) == {s[i] : i \in 1..Len(s)}

\* column names of an uploaded CSV that the model explores
UploadNames ==
    {"Revenue", "SALES", "Product", "Category", "Stock_Quantity",
     "Supplier_Lead_Time", "Cost_Per_Unit", "Warehouse"}

\* the keys of the rows built by generate_sample_data, in order
SampleNames ==
    <<"Date", "Product", "Warehouse", "Stock_Quantity", "Demand",
      "Cost_Per_Unit", "Supplier_Lead_Time", "Order_Quantity">>

ColumnNames == UploadNames \cup Range(SampleNames)

\* every keyword that one of the two passes looks for in a column name
Keywords ==
    {"revenue", "sales", "product", "category", "type", "sku", "stock",
     "inventory", "lead", "time", "cost", "price"}

\* for each column name, the keywords k with  k in name.lower()
NameHas ==
    [n \in ColumnNames |->
        {k \in Keywords : Contains(Chars(k), Lower(Chars(n)))}]

\* 'k' in col.lower()
In(k, name) == k \in NameHas[name]

\* the options of the "I am a:" selectbox that the model explores
Personas == {"Supply Chain Manager", "Demand Planner"}

\* ---- the DataFrame handed to the two passes ----
\* pandas dtypes as select_dtypes sees them: np.number, 'object'
Dtypes == {"number", "object"}

Column == [name : UploadNames, dtype : Dtypes]

\* pd.read_csv never yields two columns of the same name
ColumnLists ==
    {c \in UNION {[1..n -> Column] : n \in 1..MaxCols} :
        \A i, j \in 1..Len(c) : i < j => c[i].name # c[j].name}

Cardinalities == (0..MaxFew) \cup (TopN..(TopN + MaxOver))

\* pd.read_csv: a header-only file gives object columns, a column whose
\* cells are all empty gives float64
Tables ==
    {[columns |-> c, nrows |-> g + (IF n THEN 1 ELSE 0),
      ngroups |-> g, hasnull |-> n] :
        c \in ColumnLists, g \in Cardinalities, n \in BOOLEAN}

ReadCsv ==
    {t \in Tables :
        /\ (t.nrows = 0 => \A i \in 1..Len(t.columns) :
                               t.columns[i].dtype = "object")
        /\ (t.ngroups = 0 /\ t.nrows > 0 =>
                \A i \in 1..Len(t.columns) : t.columns[i].dtype = "number")}

\* generate_sample_data: 1000 rows, five products, no missing cell
generate_sample_data ==
    [columns |->
        [i \in 1..Len(SampleNames) |->
            [name |-> SampleNames[i],
             dtype |-> IF SampleNames[i] = "Date" THEN "datetime64"
                       ELSE IF SampleNames[i] \in {"Product", "Warehouse"}
                            THEN "object" ELSE "number"]],
     nrows |-> 1000, ngroups |-> 5, hasnull |-> FALSE]

\* df is None
NoFrame == [columns |-> <<>>, nrows |-> 0, ngroups |-> 0, hasnull |-> FALSE]

\* df.select_dtypes(include=[...]).columns
select_dtypes(df, dt) == SelectSeq(df.columns, LAMBDA c : c.dtype = dt)

\* len(df[col].unique()): NaN counts as one more value
nunique(df) == df.ngroups + (IF df.hasnull THEN 1 ELSE 0)

\* ---- what the pandas / plotly calls do ----
\* sum, mean, quantile of one column: fine on numbers, TypeError on text;
\* on an object column without any text the outcome depends on the pandas
\* version
NumericReduce(df, col) ==
    IF col.dtype = "number" THEN {"ok"}
    ELSE IF col.dtype = "object" /\ df.ngroups > 0 THEN {"TypeError"}
    ELSE {"ok", "TypeError"}

\* groupby(...).sum().sort_values() then .index[0]: IndexError without groups
FirstGroup(df) == IF df.ngroups = 0 THEN {"IndexError"} ELSE {"ok"}

\* a plotly express figure of grouped sums of col: certain to work only for
\* numeric sums over at least one group
GroupedFigure(df, col) ==
    IF col.dtype = "number" /\ df.ngroups > 0 THEN {"ok"}
    ELSE {"ok", "ValueError"}

\* a plotly express figure drawn from the frame itself
FrameFigure(df) == IF df.nrows > 0 THEN {"ok"} ELSE {"ok", "ValueError"}

\* Series.nlargest(10): TypeError on an object Series
Nlargest(col) == IF col.dtype = "number" THEN {"ok"} ELSE {"TypeError"}

\* the classes caught by  except Exception
ExceptionClasses == {"TypeError", "IndexError", "ValueError"}

\* one block of a try body: skipped once an exception is in flight or when
\* its if-condition is false; otherwise it raises or appends
Block(acc, k, cond, outcome, appended) ==
    IF acc.exc # "none" \/ ~cond THEN acc
    ELSE IF outcome # "ok" THEN [acc EXCEPT !.exc = outcome, !.at = k]
    ELSE [acc EXCEPT !.out = @ \o appended]

Started == [out |-> <<>>, exc |-> "none", at |-> 0]

\* ---- analyze_data ----
analyze_revenue_cols(df) ==
    SelectSeq(df.columns,
              LAMBDA c : In("revenue", c.name) \/ In("sales", c.name))

\* the for loop with break: the first object column naming a category, as
\* a one-element sequence; None is the empty sequence
category_col(df) ==
    LET matching ==
            SelectSeq(select_dtypes(df, "object"),
                      LAMBDA c :
                          \E kw \in {"product", "category", "type", "sku"} :
                              In(kw, c.name))
    IN  IF matching = <<>> THEN <<>> ELSE <<matching[1]>>

analyze_stock_cols(df) ==
    SelectSeq(df.columns,
              LAMBDA c : In("stock", c.name) \/ In("inventory", c.name))

analyze_lead_time_cols(df) ==
    SelectSeq(df.columns, LAMBDA c : In("lead", c.name) /\ In("time", c.name))

cost_cols(df) ==
    SelectSeq(df.columns, LAMBDA c : In("cost", c.name) \/ In("price", c.name))

\* the if-condition of each block of the try body
AnalyzeCond(df, k) ==
    CASE k = 1 -> analyze_revenue_cols(df) # <<>>
      [] k = 2 -> /\ Len(select_dtypes(df, "object")) > 0
                  /\ Len(select_dtypes(df, "number")) > 0
                  /\ category_col(df) # <<>>
                  /\ analyze_revenue_cols(df) # <<>>
      [] k = 3 -> analyze_stock_cols(df) # <<>>
      [] k = 4 -> analyze_lead_time_cols(df) # <<>>
      [] k = 5 -> cost_cols(df) # <<>>

\* what the library calls of each block can do on df
AnalyzeOutcomes(df, k) ==
    IF ~AnalyzeCond(df, k) THEN {"ok"}
    ELSE CASE k = 1 -> NumericReduce(df, analyze_revenue_cols(df)[1])
           [] k = 2 -> FirstGroup(df)
           [] k = 3 -> NumericReduce(df, analyze_stock_cols(df)[1])
           [] k = 4 -> NumericReduce(df, analyze_lead_time_cols(df)[1])
           [] k = 5 -> NumericReduce(df, cost_cols(df)[1])

AnalyzeLib(df) ==
    {<<o1, o2, o3, o4, o5>> :
        o1 \in AnalyzeOutcomes(df, 1), o2 \in AnalyzeOutcomes(df, 2),
        o3 \in AnalyzeOutcomes(df, 3), o4 \in AnalyzeOutcomes(df, 4),
        o5 \in AnalyzeOutcomes(df, 5)}

\* analyze_try with the stock block and the cost block in each other's place
analyze_try_cost_first(df, lib) ==
    LET s1 == Block(Started, 1, AnalyzeCond(df, 1), lib[1], <<"performance">>)
        s2 == Block(s1, 2, AnalyzeCond(df, 2), lib[2],
                    <<"top_performer", "underperformer">>)
        s3 == Block(s2, 5, AnalyzeCond(df, 5), lib[5], <<"cost">>)
        s4 == Block(s3, 4, AnalyzeCond(df, 4), lib[4], <<"efficiency">>)
        s5 == Block(s4, 3, AnalyzeCond(df, 3), lib[3], <<"inventory">>)
    IN  s5

\* the body of the try statement
analyze_try(df, lib) ==
    LET s1 == Block(Started, 1, AnalyzeCond(df, 1), lib[1], <<"performance">>)
        s2 == Block(s1, 2, AnalyzeCond(df, 2), lib[2],
                    <<"top_performer", "underperformer">>)
        s3 == Block(s2, 3, AnalyzeCond(df, 3), lib[3], <<"inventory">>)
        s4 == Block(s3, 4, AnalyzeCond(df, 4), lib[4], <<"efficiency">>)
        s5 == Block(s4, 5, AnalyzeCond(df, 5), lib[5], <<"cost">>)
    IN  s5

\* analyze_except with a handler that only swallows the exception
analyze_except_pass(acc) ==
    IF acc.exc \in ExceptionClasses THEN [acc EXCEPT !.exc = "none"] ELSE acc

\* except Exception as e: append the "Ready for Analysis" insight
analyze_except(acc) ==
    IF acc.exc \in ExceptionClasses
    THEN [acc EXCEPT !.out = Append(@, "general"), !.exc = "none"]
    ELSE acc

\* analyze_data(df, user_type); user_type is not read by the function
analyze_data(df, user_type, lib) == analyze_except(analyze_try(df, lib))

\* ---- create_visualizations ----
viz_revenue_cols(df) == SelectSeq(df.columns, LAMBDA c : In("revenue", c.name))

product_cols(df) ==
    SelectSeq(df.columns,
              LAMBDA c : In("product", c.name) \/ In("type", c.name))

viz_stock_cols(df) == SelectSeq(df.columns, LAMBDA c : In("stock", c.name))

viz_lead_time_cols(df) ==
    SelectSeq(df.columns, LAMBDA c : In("lead", c.name) /\ In("time", c.name))

price_cols(df) ==
    SelectSeq(df.columns, LAMBDA c : In("price", c.name) \/ In("cost", c.name))

\* the if-condition of charts 1 to 4
VizCond(df, k) ==
    CASE k = 1 -> viz_revenue_cols(df) # <<>> /\ product_cols(df) # <<>>
      [] k = 2 -> viz_stock_cols(df) # <<>> /\ product_cols(df) # <<>>
      [] k = 3 -> viz_lead_time_cols(df) # <<>> /\ viz_revenue_cols(df) # <<>>
      [] k = 4 -> /\ viz_revenue_cols(df) # <<>> /\ product_cols(df) # <<>>
                  /\ nunique(df) > TopN

\* the fallback: if not charts and len(numeric_cols) > 0, then if price_cols
FallbackCond(df, charts_so_far) ==
    /\ charts_so_far = <<>>
    /\ Len(select_dtypes(df, "number")) > 0
    /\ price_cols(df) # <<>>

VizOutcomes(df, k) ==
    CASE k = 5 -> FrameFigure(df)
      [] k # 5 /\ ~VizCond(df, k) -> {"ok"}
      [] k = 1 /\ VizCond(df, k) -> GroupedFigure(df, viz_revenue_cols(df)[1])
      [] k = 2 /\ VizCond(df, k) -> GroupedFigure(df, viz_stock_cols(df)[1])
      [] k = 3 /\ VizCond(df, k) -> FrameFigure(df)
      [] k = 4 /\ VizCond(df, k) -> Nlargest(viz_revenue_cols(df)[1])

VizLib(df) ==
    {<<o1, o2, o3, o4, o5>> :
        o1 \in VizOutcomes(df, 1), o2 \in VizOutcomes(df, 2),
        o3 \in VizOutcomes(df, 3), o4 \in VizOutcomes(df, 4),
        o5 \in VizOutcomes(df, 5)}

viz_try(df, lib) ==
    LET c1 == Block(Started, 1, VizCond(df, 1), lib[1], <<"revenue_bar">>)
        c2 == Block(c1, 2, VizCond(df, 2), lib[2], <<"stock_pie">>)
        c3 == Block(c2, 3, VizCond(df, 3), lib[3], <<"lead_time_scatter">>)
        c4 == Block(c3, 4, VizCond(df, 4), lib[4], <<"top10_bar">>)
        c5 == Block(c4, 5, FallbackCond(df, c4.out), lib[5],
                    <<"price_histogram">>)
    IN  c5

\* except Exception as e: append the "SupplyWise Analysis Status" bar chart
viz_except(acc) ==
    IF acc.exc \in ExceptionClasses
    THEN [acc EXCEPT !.out = Append(@, "status_bar"), !.exc = "none"]
    ELSE acc

create_visualizations(df, lib) == viz_except(viz_try(df, lib))

\* ---- the page script (main) ----
VARIABLES pc, df, user_type, insights, charts, analyze_raised, viz_raised

vars == <<pc, df, user_type, insights, charts, analyze_raised, viz_raised>>

Init ==
    /\ pc = "welcome"
    /\ df = NoFrame
    /\ user_type = "Supply Chain Manager"
    /\ insights = <<>>
    /\ charts = <<>>
    /\ analyze_raised = 0
    /\ viz_raised = 0

\* a CSV is uploaded and read, the selectbox holds some persona
UploadFile ==
    /\ pc = "welcome"
    /\ \E t \in ReadCsv, u \in Personas :
          /\ df' = t
          /\ user_type' = u
    /\ pc' = "loaded"
    /\ UNCHANGED <<insights, charts, analyze_raised, viz_raised>>

\* the "Load Sample Data" button
LoadSampleData ==
    /\ pc = "welcome"
    /\ df' = generate_sample_data
    /\ \E u \in Personas : user_type' = u
    /\ pc' = "loaded"
    /\ UNCHANGED <<insights, charts, analyze_raised, viz_raised>>

\* insights = analyze_data(df, user_type)
AnalyzeData ==
    /\ pc = "loaded"
    /\ \E lib \in AnalyzeLib(df) :
          LET r == analyze_data(df, user_type, lib)
          IN  /\ insights' = r.out
              /\ analyze_raised' = r.at
              /\ pc' = IF r.exc = "none" THEN "analyzed" ELSE "crashed"
    /\ UNCHANGED <<df, user_type, charts, viz_raised>>

\* charts = create_visualizations(df)
CreateVisualizations ==
    /\ pc = "analyzed"
    /\ \E lib \in VizLib(df) :
          LET r == create_visualizations(df, lib)
          IN  /\ charts' = r.out
              /\ viz_raised' = r.at
              /\ pc' = IF r.exc = "none" THEN "done" ELSE "crashed"
    /\ UNCHANGED <<df, user_type, insights, analyze_raised>>

Next == UploadFile \/ LoadSampleData \/ AnalyzeData \/ CreateVisualizations

Spec == Init /\ [][Next]_vars

\* ---- properties ----
Has(seq, x) == \E i \in 1..Len(seq) : seq[i] = x

Count(seq, x) == Cardinality({i \in 1..Len(seq) : seq[i] = x})

\* analyze_data has returned its list to main
AnalysisReturned == pc \in {"analyzed", "done"}

\* create_visualizations has returned its list to main
ChartsReturned == pc = "done"

\* the insight appended by analyzer block k, for the blocks that append one
AnalyzerInsight(k) ==
    CASE k = 3 -> "inventory" [] k = 4 -> "efficiency" [] k = 5 -> "cost"

\* the chart appended by chart block k
StrategyChart(k) ==
    CASE k = 1 -> "revenue_bar" [] k = 2 -> "stock_pie"
      [] k = 3 -> "lead_time_scatter" [] k = 4 -> "top10_bar"

\* position of an insight type in the fixed analyzer order
Rank(t) ==
    CASE t = "performance" -> 1 [] t = "top_performer" -> 2
      [] t = "underperformer" -> 3 [] t = "inventory" -> 4
      [] t = "efficiency" -> 5 [] t = "cost" -> 6 [] t = "general" -> 7

\* C1: whatever the dataset, the list returned by create_visualizations
\* holds at least one chart.
C1_ChartsNeverEmpty == ChartsReturned => Len(charts) >= 1

\* C2: when an analyzer block raised, every later analyzer (inventory
\* alert, lead time, cost management) whose role column exists, and whose
\* own computation cannot fail on that column, still has its insight in the
\* returned list.
C2_AnalyzerFailuresIsolated ==
    (AnalysisReturned /\ analyze_raised # 0) =>
        \A k \in 3..5 :
            (k > analyze_raised /\ AnalyzeCond(df, k)
                /\ AnalyzeOutcomes(df, k) = {"ok"})
            => Has(insights, AnalyzerInsight(k))

\* C3: when a chart strategy raised, no substitute chart stands in for it
\* next to the other charts, and every later strategy whose roles exist, and
\* which cannot fail itself, still has its chart in the returned list.
C3_ChartFailuresIsolated ==
    (ChartsReturned /\ viz_raised # 0) =>
        /\ Has(charts, "status_bar") => Len(charts) = 1
        /\ \A k \in 1..4 :
              (k > viz_raised /\ VizCond(df, k)
                  /\ VizOutcomes(df, k) = {"ok"})
              => Has(charts, StrategyChart(k))

\* C4: no exception leaves analyze_data, and the returned list holds the
\* 'general' insight exactly once when a block raised and not at all when
\* none did.
C4_GeneralIffFailure ==
    /\ pc # "crashed"
    /\ AnalysisReturned =>
          Count(insights, "general") = (IF analyze_raised # 0 THEN 1 ELSE 0)

\* a run in which a block raised after an earlier block had appended
C4_Witness ==
    /\ pc = "analyzed"
    /\ analyze_raised > 1
    /\ Len(insights) > 1
    /\ Count(insights, "general") = 1

\* C5: for a dataset with zero rows the returned insight list is empty.
C5_NoRowsNoInsights == (AnalysisReturned /\ df.nrows = 0) => insights = <<>>

\* C6: with a revenue-role column (revenue or sales) and a category-role
\* column (text column named product, category, type or sku) and no chart
\* strategy failing, the first chart is the revenue-by-category bar chart.
C6_SameRolesFirstChart ==
    (/\ ChartsReturned
     /\ analyze_revenue_cols(df) # <<>>
     /\ category_col(df) # <<>>
     /\ viz_raised = 0)
    => (Len(charts) >= 1 /\ charts[1] = "revenue_bar")

\* C7: for a persona that contains "demand" the returned list includes the
\* demand-forecasting-readiness insight (category 'business').
C7_DemandPersonaInsight ==
    (AnalysisReturned /\ Contains(Chars("demand"), Lower(Chars(user_type))))
    => Has(insights, "business")

\* C8: the top-10 chart is returned only if the category column has more
\* than 10 distinct values, and it is returned whenever the revenue and
\* category roles exist and there are more than 10 distinct categories.
C8_Top10OnlyAboveTen ==
    ChartsReturned =>
        /\ Has(charts, "top10_bar") => df.ngroups > TopN
        /\ (/\ analyze_revenue_cols(df) # <<>>
            /\ category_col(df) # <<>>
            /\ df.ngroups > TopN) => Has(charts, "top10_bar")

\* C9: the best and worst category insights are returned only when the
\* category column has at least 2 distinct values.
C9_BestWorstNeedTwoCategories ==
    (AnalysisReturned /\ df.ngroups < 2) =>
        (~Has(insights, "top_performer") /\ ~Has(insights, "underperformer"))

\* C10: the returned insights are in the fixed analyzer order, each type at
\* most once, with 'general' (if any) last, whatever the column order.
C10_FixedInsightOrder ==
    AnalysisReturned =>
        \A i, j \in 1..Len(insights) :
            i < j => Rank(insights[i]) < Rank(insights[j])

\* cost column first, stock column second, revenue column last, and the
\* list is performance, inventory, cost
C10_Witness ==
    /\ pc = "analyzed"
    /\ Len(df.columns) = 3
    /\ analyze_revenue_cols(df) = <<df.columns[3]>>
    /\ analyze_stock_cols(df) = <<df.columns[2]>>
    /\ cost_cols(df) = <<df.columns[1]>>
    /\ insights = <<"performance", "inventory", "cost">>

====
